---- MODULE Spec2Model ----
(***************************************************************************)
(* A model of packages/mongodb/src/MongoDriver.ts: the document rewriting  *)
(* done by renameFields and convertObjectIds, the projection computed by   *)
(* buildFields, and the driver calls (find, count, nativeUpdate,           *)
(* nativeDelete) that rewrite their arguments and dispatch them to the     *)
(* store connection.                                                       *)
(*                                                                         *)
(* JavaScript objects and arrays are mutable and shared by reference, so   *)
(* the rewriting is modelled over an explicit heap: a document is a cell   *)
(* of the heap, a value is a primitive or a reference to a cell, and every *)
(* operator that the code runs on a document takes the heap and returns    *)
(* the heap it leaves behind.                                              *)
(***************************************************************************)
EXTENDS Integers, Sequences, FiniteSets, TLC

(***************************************************************************)
(* Values.  A heap value is a record [t, s, n]: t is the JavaScript type,  *)
(* s the characters of a string (or the hex digits of an ObjectId, or the  *)
(* source of a RegExp), n a number or, for t = "ref", the heap address.    *)
(* A tree value [t, s, n, c] is a value with its children in place; it is  *)
(* how a document is written down and compared.                            *)
(***************************************************************************)
Prim(t, s, n) == [t |-> t, s |-> s, n |-> n]

Undefined == Prim("undefined", <<>>, 0)

Null == Prim("null", <<>>, 0)

Str(s) == Prim("string", s, 0)

Num(n) == Prim("number", <<>>, n)

Ref(n) == Prim("ref", <<>>, n)

Leaf(p) == [t |-> p.t, s |-> p.s, n |-> p.n, c |-> <<>>]

Obj(c) == [t |-> "object", s |-> <<>>, n |-> 0, c |-> c]

Arr(items) == [t |-> "array", s |-> <<>>, n |-> 0,
               c |-> [i \in 1..Len(items) |-> [k |-> "", v |-> items[i]]]]

KV(k, v) == [k |-> k, v |-> v]

\* The value a failed call leaves in place of a result.
NoValue == Leaf(Undefined)

(***************************************************************************)
(* Strings whose characters matter are sequences of one-character strings. *)
(***************************************************************************)
HexDigits == {"0", "1", "2", "3", "4", "5", "6", "7", "8", "9",
              "a", "b", "c", "d", "e", "f", "A", "B", "C", "D", "E", "F"}

ToLowerChar(ch) ==
    CASE ch = "A" -> "a" [] ch = "B" -> "b" [] ch = "C" -> "c"
      [] ch = "D" -> "d" [] ch = "E" -> "e" [] ch = "F" -> "f"
      [] OTHER -> ch

\* new ObjectId(hex): the identifier holds the twelve bytes the hex digits
\* spell, so the case of the digits is not kept.
ObjectId(s) == Prim("ObjectId", [i \in 1..Len(s) |-> ToLowerChar(s[i])], 0)

\* new RegExp(source)
RegExp(src) == Prim("RegExp", src.s, 0)

\* data.match(/^[0-9a-f]{24}$/i)
ObjectIdHexLen == 24

\* data.match(/^[0-9a-f]{24}$/): the pattern without its flag i
MatchesLowerCaseHex(s) ==
    /\ Len(s) = ObjectIdHexLen
    /\ \A i \in 1..Len(s) : s[i] \in HexDigits /\ ToLowerChar(s[i]) = s[i]

MatchesObjectIdHex(s) ==
    /\ Len(s) = ObjectIdHexLen
    /\ \A i \in 1..Len(s) : s[i] \in HexDigits

(***************************************************************************)
(* The heap: a sequence of cells, a cell an object or an array with its    *)
(* own entries in insertion order.                                         *)
(***************************************************************************)
Cell(arr, ents) == [arr |-> arr, ents |-> ents]

Alloc(h, cell) == [h |-> Append(h, cell), v |-> Ref(Len(h) + 1)]

IsRef(v) == v.t = "ref"

Ents(h, v) == h[v.n].ents

\* Object.keys(o)
ObjectKeys(h, v) == [i \in 1..Len(Ents(h, v)) |-> Ents(h, v)[i].k]

\* k in o
HasKey(h, v, k) == \E i \in 1..Len(Ents(h, v)) : Ents(h, v)[i].k = k

\* o[k]
Get(h, v, k) ==
    IF IsRef(v) /\ HasKey(h, v, k)
    THEN Ents(h, v)[CHOOSE i \in 1..Len(Ents(h, v)) : Ents(h, v)[i].k = k].v
    ELSE Undefined

\* o[k] = x: an own key keeps its place, a new key goes last.
Put(h, v, k, x) ==
    IF HasKey(h, v, k)
    THEN [h EXCEPT ![v.n].ents =
            [i \in 1..Len(@) |-> IF @[i].k = k THEN KV(k, x) ELSE @[i]]]
    ELSE [h EXCEPT ![v.n].ents = Append(@, KV(k, x))]

\* delete o[k]
Delete(h, v, k) ==
    [h EXCEPT ![v.n].ents = SelectSeq(@, LAMBDA e : e.k # k)]

RECURSIVE Load(_, _), LoadEnts(_, _, _)
\* Builds the tree value in the heap, children first.
Load(h, tree) ==
    IF tree.t \in {"object", "array"}
    THEN LET r == LoadEnts(h, tree.c, 1)
         IN  Alloc(r.h, Cell(tree.t = "array", r.ents))
    ELSE [h |-> h, v |-> Prim(tree.t, tree.s, tree.n)]

LoadEnts(h, c, i) ==
    IF i > Len(c)
    THEN [h |-> h, ents |-> <<>>]
    ELSE LET a == Load(h, c[i].v)
             r == LoadEnts(a.h, c, i + 1)
         IN  [h |-> r.h, ents |-> <<KV(c[i].k, a.v)>> \o r.ents]

RECURSIVE Deref(_, _)
\* Reads the value at v back as a tree.
Deref(h, v) ==
    IF IsRef(v)
    THEN [t |-> IF h[v.n].arr THEN "array" ELSE "object", s |-> <<>>, n |-> 0,
          c |-> [i \in 1..Len(Ents(h, v)) |->
                    KV(Ents(h, v)[i].k, Deref(h, Ents(h, v)[i].v))]]
    ELSE Leaf(v)

(***************************************************************************)
(* Utils of @mikro-orm/core, as MongoDriver uses them.                     *)
(***************************************************************************)
\* Array.isArray(v)
IsArray(h, v) == IsRef(v) /\ h[v.n].arr

\* Utils.isPlainObject(v)
IsPlainObject(h, v) == IsRef(v) /\ ~h[v.n].arr

\* Utils.isObject(v): a non-null typeof 'object' that is no array.
IsObject(h, v) == IsPlainObject(h, v) \/ v.t \in {"ObjectId", "RegExp"}

\* Utils.isString(v)
IsString(v) == v.t = "string"

\* Utils.isGroupOperator(k): k in GroupOperator
GroupOperator == {"$and", "$or"}

IsGroupOperator(k) == k \in GroupOperator

\* Utils.isEmpty(v), for the filter documents andWhere is given.
IsEmpty(h, v) == IF IsRef(v) THEN Len(Ents(h, v)) = 0
                 ELSE v.t \in {"undefined", "null"}

RECURSIVE HasNestedKey(_, _, _)
\* Utils.hasNestedKey(object, key)
HasNestedKey(h, v, key) ==
    /\ IsRef(v)
    /\ \E i \in 1..Len(Ents(h, v)) :
          \/ ~h[v.n].arr /\ Ents(h, v)[i].k = key
          \/ HasNestedKey(h, Ents(h, v)[i].v, key)

\* Utils.renameKey(payload, from, to): done only when payload has from and
\* has no to; every key is deleted and set again, so the order is kept.
RenameKey(h, v, from, to) ==
    IF IsObject(h, v) /\ IsRef(v) /\ HasKey(h, v, from) /\ ~HasKey(h, v, to)
    THEN [h EXCEPT ![v.n].ents =
            [i \in 1..Len(@) |-> IF @[i].k = from THEN KV(to, @[i].v) ELSE @[i]]]
    ELSE h

(***************************************************************************)
(* The metadata registry (this.metadata): the entities the driver is asked *)
(* about.  Author is a collection with an ObjectId primary key _id and its *)
(* serialized alias id, a renamed scalar, a reference, an embedded object  *)
(* stored under another field name and a lazy scalar; Address is the       *)
(* embeddable; Chain is a collection in which the field name of one        *)
(* property is the name of another; Report is a virtual entity.            *)
(***************************************************************************)
Property(name, kind, type, fieldNames) ==
    [name |-> name, kind |-> kind, type |-> type,
     hasFieldNames |-> TRUE, fieldNames |-> fieldNames,
     array |-> FALSE, object |-> FALSE, lazy |-> FALSE, formula |-> FALSE,
     persist |-> TRUE, serializedPrimaryKey |-> FALSE]

EntityMetadata(className, primaryKeys, serializedPrimaryKey, props) ==
    [className |-> className, primaryKeys |-> primaryKeys,
     serializedPrimaryKey |-> serializedPrimaryKey,
     embeddable |-> FALSE, virtual |-> FALSE,
     props |-> props]

AuthorMeta ==
    EntityMetadata("Author", <<"_id">>, "id", <<
        Property("_id", "scalar", "ObjectId", <<"_id">>),
        [Property("id", "scalar", "string", <<"id">>)
            EXCEPT !.serializedPrimaryKey = TRUE, !.persist = FALSE],
        Property("name", "scalar", "string", <<"fullName">>),
        Property("age", "scalar", "number", <<"age">>),
        Property("boss", "m:1", "Author", <<"boss">>),
        [Property("address", "embedded", "Address", <<"addr">>)
            EXCEPT !.object = TRUE],
        [Property("bio", "scalar", "text", <<"bio">>) EXCEPT !.lazy = TRUE]
    >>)

AddressMeta ==
    [EntityMetadata("Address", <<>>, "", <<
        Property("city", "scalar", "string", <<"town">>)
     >>) EXCEPT !.embeddable = TRUE]

ChainMeta ==
    EntityMetadata("Chain", <<"a">>, "", <<
        Property("a", "scalar", "string", <<"b">>),
        Property("b", "scalar", "string", <<"c">>)
    >>)

ReportMeta ==
    [EntityMetadata("Report", <<"_id">>, "", <<
        Property("_id", "scalar", "ObjectId", <<"_id">>)
     >>) EXCEPT !.virtual = TRUE]

Registry == <<AuthorMeta, AddressMeta, ChainMeta, ReportMeta>>

\* this.metadata.find(entityName) is defined
HasMeta(entityName) == \E i \in 1..Len(Registry) : Registry[i].className = entityName

\* this.metadata.find(entityName)
FindMeta(entityName) ==
    Registry[CHOOSE i \in 1..Len(Registry) : Registry[i].className = entityName]

\* meta.properties[k] is defined
HasProp(meta, k) == \E i \in 1..Len(meta.props) : meta.props[i].name = k

\* meta.properties[k]
PropOf(meta, k) ==
    meta.props[CHOOSE i \in 1..Len(meta.props) : meta.props[i].name = k]

\* prop.type.toLowerCase(), over the type names of the registry
ToLowerCase(type) ==
    CASE type = "ObjectId" -> "objectid"
      [] type = "Author" -> "author"
      [] type = "Address" -> "address"
      [] OTHER -> type

(***************************************************************************)
(* convertObjectIds, lines 319-339.  A call returns the heap it leaves and *)
(* the value it returns.                                                   *)
(***************************************************************************)
RECURSIVE convertObjectIds(_, _), ConvertItems(_, _, _), ConvertKeys(_, _, _, _)
convertObjectIds(h, data) ==
    IF data.t = "ObjectId"
    THEN [h |-> h, v |-> data]
    ELSE IF IsString(data) /\ MatchesObjectIdHex(data.s)
    THEN [h |-> h, v |-> ObjectId(data.s)]
    ELSE IF IsArray(h, data)
    THEN LET r == ConvertItems(h, Ents(h, data), 1)
         IN  Alloc(r.h, Cell(TRUE, r.ents))
    ELSE IF IsObject(h, data)
    THEN [h |-> ConvertKeys(h, data, IF IsRef(data) THEN ObjectKeys(h, data) ELSE <<>>, 1),
          v |-> data]
    ELSE [h |-> h, v |-> data]

\* (data as T[]).map(item => this.convertObjectIds(item)), line 329
ConvertItems(h, items, i) ==
    IF i > Len(items)
    THEN [h |-> h, ents |-> <<>>]
    ELSE LET a == convertObjectIds(h, items[i].v)
             r == ConvertItems(a.h, items, i + 1)
         IN  [h |-> r.h, ents |-> <<KV("", a.v)>> \o r.ents]

\* Object.keys(data).forEach(k => data[k] = this.convertObjectIds(data[k])),
\* lines 333-335: the values are replaced in the object that was passed in.
ConvertKeys(h, data, keys, i) ==
    IF i > Len(keys)
    THEN h
    ELSE LET a == convertObjectIds(h, Get(h, data, keys[i]))
         IN  ConvertKeys(Put(a.h, data, keys[i], a.v), data, keys, i + 1)

(***************************************************************************)
(* renameFields, lines 226-317.  A call returns [h, v, err]: the heap it   *)
(* leaves, the document it returns and, when it throws, the error (the     *)
(* heap is then the heap at the throw).                                    *)
(***************************************************************************)
NoError == ""

\* line 247: 'Cannot merge multiple $fulltext conditions to top level of the
\* query object.'
ConflictError == "ConflictError"

\* line 265: 'Full text search is only supported on the top level of the
\* query object.'
ValidationError == "ValidationError"

\* A JavaScript condition on a value: if (v)
Truthy(v) ==
    ~ \/ v.t \in {"undefined", "null"}
      \/ v.t = "string" /\ v.s = <<>>
      \/ v.t = "number" /\ v.n = 0

\* const copiedData = Object.assign({}, data), line 228: a new object with
\* the entries of data, whose values are shared with data.
CopyData(h, data) ==
    Alloc(h, Cell(FALSE, IF IsPlainObject(h, data) THEN Ents(h, data) ELSE <<>>))

\* Lines 229-233 with the two keys of line 232 exchanged: the primary key is
\* renamed to the serialized primary key.
RenameSerializedPrimaryKeyExchanged(h, entityName, copiedData) ==
    IF /\ HasMeta(entityName)
       /\ FindMeta(entityName).serializedPrimaryKey # ""
       /\ ~FindMeta(entityName).embeddable
       /\ FindMeta(entityName).serializedPrimaryKey # FindMeta(entityName).primaryKeys[1]
    THEN RenameKey(h, copiedData, FindMeta(entityName).primaryKeys[1],
                   FindMeta(entityName).serializedPrimaryKey)
    ELSE h

\* lines 229-233
RenameSerializedPrimaryKey(h, entityName, copiedData) ==
    IF /\ HasMeta(entityName)
       /\ FindMeta(entityName).serializedPrimaryKey # ""
       /\ ~FindMeta(entityName).embeddable
       /\ FindMeta(entityName).serializedPrimaryKey # FindMeta(entityName).primaryKeys[1]
    THEN RenameKey(h, copiedData, FindMeta(entityName).serializedPrimaryKey,
                   FindMeta(entityName).primaryKeys[1])
    ELSE h

\* this.inlineEmbeddables(meta, copiedData, where) of DatabaseDriver: the
\* embedded properties of the registry are stored as nested objects
\* (object: true), which are left nested.
inlineEmbeddables(h, meta, data, where) == h

\* lines 235-237
InlineEmbeddablesStep(h, entityName, copiedData, where) ==
    IF HasMeta(entityName) /\ ~FindMeta(entityName).embeddable
    THEN inlineEmbeddables(h, FindMeta(entityName), copiedData, where)
    ELSE h

RECURSIVE HoistLoop(_, _, _, _)
\* The loop of lines 242-253 without the check of lines 246-248: a later
\* $fulltext takes the place of an earlier one.
HoistLoopOverwriting(h, copiedData, and, i) ==
    IF i > Len(Ents(h, and))
    THEN [h |-> h, err |-> NoError]
    ELSE IF IsRef(Ents(h, and)[i].v) /\ HasKey(h, Ents(h, and)[i].v, "$fulltext")
    THEN HoistLoop(
           Delete(Put(h, copiedData, "$fulltext",
                      Get(h, Ents(h, and)[i].v, "$fulltext")),
                  Ents(h, and)[i].v, "$fulltext"),
           copiedData, and, i + 1)
    ELSE HoistLoop(h, copiedData, and, i + 1)

\* The loop of lines 242-253 from index i on: and is an element of the
\* $and array of the copy, which is the $and array of the input.
HoistLoop(h, copiedData, and, i) ==
    IF i > Len(Ents(h, and))
    THEN [h |-> h, err |-> NoError]
    ELSE LET el == Ents(h, and)[i].v
         IN  IF IsRef(el) /\ HasKey(h, el, "$fulltext")
             THEN IF HasKey(h, copiedData, "$fulltext")
                  THEN [h |-> h, err |-> ConflictError]
                  ELSE HoistLoop(
                         Delete(Put(h, copiedData, "$fulltext", Get(h, el, "$fulltext")),
                                el, "$fulltext"),
                         copiedData, and, i + 1)
             ELSE HoistLoop(h, copiedData, and, i + 1)

\* lines 241-254
HoistFulltext(h, copiedData) ==
    IF Truthy(Get(h, copiedData, "$and")) /\ IsArray(h, Get(h, copiedData, "$and"))
    THEN HoistLoop(h, copiedData, Get(h, copiedData, "$and"), 1)
    ELSE [h |-> h, err |-> NoError]

\* lines 257-260
TextSearch(h, copiedData) ==
    IF HasKey(h, copiedData, "$fulltext")
    THEN LET o == Alloc(h, Cell(FALSE, <<KV("$search", Get(h, copiedData, "$fulltext"))>>))
         IN  Delete(Put(o.h, copiedData, "$text", o.v), copiedData, "$fulltext")
    ELSE h

\* lines 264-266
DepthGuard(h, copiedData) ==
    IF HasNestedKey(h, copiedData, "$fulltext") THEN ValidationError ELSE NoError

\* lines 284-300: whether the property holds identifiers
IsObjectIdProp(prop) ==
    IF prop.kind = "scalar"
    THEN ToLowerCase(prop.type) = "objectid"
    ELSE IF prop.kind = "embedded"
    THEN FALSE
    ELSE LET meta2 == FindMeta(prop.type)
             pk == PropOf(meta2, meta2.primaryKeys[1])
         IN  ToLowerCase(pk.type) = "objectid"

\* lines 311-313: the value is read at k, the key the loop was given.
RegexStep(h, copiedData, k) ==
    IF /\ IsPlainObject(h, Get(h, copiedData, k))
       /\ HasKey(h, Get(h, copiedData, k), "$re")
    THEN Put(h, copiedData, k, RegExp(Get(h, Get(h, copiedData, k), "$re")))
    ELSE h

\* The outcome of a step of renameFields: the heap, and the error thrown
Step(h, err) == [h |-> h, err |-> err]

\* The outcome of a call of renameFields that threw
Thrown(h, err) == [h |-> h, v |-> Undefined, err |-> err]

\* The outcome of a call of renameFields that returned v
Returned(h, v) == [h |-> h, v |-> v, err |-> NoError]

\* target[k] = a.v, in the heap a.h that computing a.v left
PutNew(a, target, k) == Put(a.h, target, k, a.v)

\* lines 302-308
ConvertAndRename(h, copiedData, k, prop, isObjectId) ==
    IF prop.hasFieldNames
    THEN RenameKey(IF isObjectId
                   THEN PutNew(convertObjectIds(h, Get(h, copiedData, k)), copiedData, k)
                   ELSE h,
                   copiedData, k, prop.fieldNames[1])
    ELSE IF isObjectId
    THEN PutNew(convertObjectIds(h, Get(h, copiedData, k)), copiedData, k)
    ELSE h

\* The array a map that gave r returns
ArrayOf(r) ==
    IF r.err # NoError
    THEN Thrown(r.h, r.err)
    ELSE [h |-> Append(r.h, Cell(TRUE, r.ents)), v |-> Ref(Len(r.h) + 1), err |-> NoError]

\* copiedData[k] = r.v, lines 272 and 274, unless computing r threw
AssignResult(r, copiedData, k) ==
    IF r.err # NoError
    THEN Step(r.h, r.err)
    ELSE Step(PutNew(r, copiedData, k), NoError)

\* copiedData[prop.name] = r.v, lines 292 and 294, unless computing r threw,
\* and then lines 302-313
AssignEmbedded(r, copiedData, k, prop) ==
    IF r.err # NoError
    THEN Step(r.h, r.err)
    ELSE Step(RegexStep(ConvertAndRename(PutNew(r, copiedData, prop.name),
                                         copiedData, k, prop, FALSE),
                        copiedData, k),
              NoError)

\* line 316: the copy is returned, unless the loop over its keys threw
AfterKeys(s, copiedData) ==
    IF s.err # NoError THEN Thrown(s.h, s.err) ELSE Returned(s.h, copiedData)

\* One more element of a mapped array
MapJoin(a, r) == [h |-> r.h, ents |-> <<KV("", a.v)>> \o r.ents, err |-> r.err]

RECURSIVE renameFields(_, _, _, _, _), MapRenameFields(_, _, _, _, _, _),
          MapRest(_, _, _, _, _, _), KeyStep(_, _, _, _, _, _),
          PropStep(_, _, _, _, _, _), KeyLoop(_, _, _, _, _, _, _),
          KeyRest(_, _, _, _, _, _, _), AfterCopy(_, _, _, _),
          AfterHoist(_, _, _, _, _), AfterTextSearch(_, _, _, _, _)
\* items.map(v => this.renameFields(entityName, v, where, object)), lines
\* 272 and 292, from index i on
MapRenameFields(h, entityName, items, i, where, object) ==
    IF i > Len(items)
    THEN [h |-> h, ents |-> <<>>, err |-> NoError]
    ELSE MapRest(renameFields(h, entityName, items[i].v, where, object),
                 entityName, items, i, where, object)

\* The map after its element i gave a: a throw ends it
MapRest(a, entityName, items, i, where, object) ==
    IF a.err # NoError
    THEN [h |-> a.h, ents |-> <<>>, err |-> a.err]
    ELSE MapJoin(a, MapRenameFields(a.h, entityName, items, i + 1, where, object))

\* The callback of lines 268-314 for the key k
KeyStep(h, entityName, copiedData, k, where, object) ==
    IF IsGroupOperator(k)
    THEN \* lines 269-278
         IF IsArray(h, Get(h, copiedData, k))
         THEN AssignResult(ArrayOf(MapRenameFields(h, entityName,
                                                   Ents(h, Get(h, copiedData, k)),
                                                   1, FALSE, FALSE)),
                           copiedData, k)
         ELSE AssignResult(renameFields(h, entityName, Get(h, copiedData, k), FALSE, FALSE),
                           copiedData, k)
    ELSE IF HasMeta(entityName) /\ HasProp(FindMeta(entityName), k)
    THEN PropStep(h, copiedData, k, PropOf(FindMeta(entityName), k), where, object)
    ELSE Step(RegexStep(h, copiedData, k), NoError)

\* lines 280-313 for a key k that is the property prop
PropStep(h, copiedData, k, prop, where, object) ==
    IF prop.kind = "embedded"
    THEN IF Get(h, copiedData, prop.name).t \in {"null", "undefined"}
         THEN \* line 288: the callback returns
              Step(h, NoError)
         ELSE IF prop.array /\ IsArray(h, Get(h, copiedData, prop.name))
         THEN AssignEmbedded(ArrayOf(MapRenameFields(h, prop.type,
                                                     Ents(h, Get(h, copiedData, prop.name)),
                                                     1, where, TRUE)),
                             copiedData, k, prop)
         ELSE AssignEmbedded(renameFields(h, prop.type, Get(h, copiedData, prop.name),
                                          where, prop.object \/ object),
                             copiedData, k, prop)
    ELSE Step(RegexStep(ConvertAndRename(h, copiedData, k, prop, IsObjectIdProp(prop)),
                        copiedData, k),
              NoError)

\* Utils.keys(copiedData).forEach(...), lines 268-314, from index i on: keys
\* are the keys the copy had when the loop began.
KeyLoop(h, entityName, copiedData, keys, i, where, object) ==
    IF i > Len(keys)
    THEN Step(h, NoError)
    ELSE KeyRest(KeyStep(h, entityName, copiedData, keys[i], where, object),
                 entityName, copiedData, keys, i, where, object)

\* The loop after the callback for key i gave a: a throw ends it
KeyRest(a, entityName, copiedData, keys, i, where, object) ==
    IF a.err # NoError
    THEN a
    ELSE KeyLoop(a.h, entityName, copiedData, keys, i + 1, where, object)

\* lines 226-228: the copy, then the rest
renameFields(h, entityName, data, where, object) ==
    AfterCopy(CopyData(h, data), entityName, where, object)

\* lines 229-254, c.v being copiedData
AfterCopy(c, entityName, where, object) ==
    AfterHoist(HoistFulltext(InlineEmbeddablesStep(
                                 RenameSerializedPrimaryKey(c.h, entityName, c.v),
                                 entityName, c.v, where),
                             c.v),
               entityName, c.v, where, object)

\* lines 256-260, unless the hoisting threw
AfterHoist(s, entityName, copiedData, where, object) ==
    IF s.err # NoError
    THEN Thrown(s.h, s.err)
    ELSE AfterTextSearch(TextSearch(s.h, copiedData), entityName, copiedData, where, object)

\* lines 262-316
AfterTextSearch(h, entityName, copiedData, where, object) ==
    IF DepthGuard(h, copiedData) # NoError
    THEN Thrown(h, DepthGuard(h, copiedData))
    ELSE AfterKeys(KeyLoop(h, entityName, copiedData, ObjectKeys(h, copiedData),
                           1, where, object),
                   copiedData)

(***************************************************************************)
(* buildFields, lines 351-397.  A requested field is the sequence of its   *)
(* dot-separated segments (<<"address", "city">> is 'address.city'); a     *)
(* populate hint is a record [field, all].  The result is [defined, list]: *)
(* defined is FALSE for undefined, and list holds field names, each the    *)
(* sequence of its segments.                                               *)
(***************************************************************************)
FieldList(list) == [defined |-> TRUE, list |-> list]

NoFieldList == [defined |-> FALSE, list |-> <<>>]

\* A field name without a dot
Name(s) == <<s>>

\* field.toString().includes('.')
IncludesDot(field) == Len(field) > 1

\* field.toString().substring(0, field.toString().indexOf('.')), line 369
FirstSegment(field) == field[1]

\* meta.getPrimaryProps()
GetPrimaryProps(meta) ==
    [i \in 1..Len(meta.primaryKeys) |-> PropOf(meta, meta.primaryKeys[i])]

\* this.platform.shouldHaveColumn(prop, populate) of the platform
ShouldHaveColumn(prop, populate) == ~prop.formula /\ prop.persist

\* line 358
IsLazyProp(prop, populate) ==
    prop.lazy /\ ~\E i \in 1..Len(populate) :
                     populate[i].field = prop.name \/ populate[i].all

RECURSIVE Flatten(_)
\* Utils.flatten(lists)
Flatten(lists) ==
    IF lists = <<>> THEN <<>> ELSE Head(lists) \o Flatten(Tail(lists))

\* lines 383-384 and 392-393: the field names of the properties that have a
\* column and are not lazy
ColumnFieldNames(meta, populate) ==
    LET props == SelectSeq(meta.props, LAMBDA q : ShouldHaveColumn(q, populate))
        eager == SelectSeq(props, LAMBDA q : ~IsLazyProp(q, populate))
        names == Flatten([i \in 1..Len(eager) |-> eager[i].fieldNames])
    IN  [i \in 1..Len(names) |-> Name(names[i])]

\* The body of the loop of lines 362-388 for one field: what it pushes
FieldStep(meta, populate, field0) ==
    LET field == IF IncludesDot(field0) THEN FirstSegment(field0) ELSE field0[1]
    IN  IF HasProp(meta, field)
        THEN IF ~PropOf(meta, field).hasFieldNames
             THEN <<>>
             ELSE IF PropOf(meta, field).serializedPrimaryKey
             THEN <<Name(GetPrimaryProps(meta)[1].fieldNames[1])>>
             ELSE <<Name(PropOf(meta, field).fieldNames[1])>>
        ELSE IF field = "*"
        THEN ColumnFieldNames(meta, populate)
        ELSE <<Name(field)>>

\* fields.includes(pk), line 390: the list as the caller gave it
FieldsInclude(fields, pk) == \E i \in 1..Len(fields) : fields[i] = Name(pk)

\* line 390: the primary keys to put in front
MissingPrimaryKeys(meta, fields) ==
    LET pks == SelectSeq(meta.primaryKeys, LAMBDA pk : ~FieldsInclude(fields, pk))
    IN  [i \in 1..Len(pks) |-> Name(pks[i])]

buildFields(entityName, populate, hasFields, fields) ==
    IF ~HasMeta(entityName)
    THEN IF hasFields
         THEN FieldList(fields)
         ELSE NoFieldList
    ELSE LET meta == FindMeta(entityName)
             lazyProps == SelectSeq(meta.props, LAMBDA q : IsLazyProp(q, populate))
             ret == IF hasFields
                    THEN MissingPrimaryKeys(meta, fields)
                         \o Flatten([i \in 1..Len(fields) |->
                                        FieldStep(meta, populate, fields[i])])
                    ELSE IF Len(SelectSeq(lazyProps, LAMBDA q : ~q.formula)) > 0
                    THEN ColumnFieldNames(meta, populate)
                    ELSE <<>>
         IN  IF Len(ret) > 0 THEN FieldList(ret) ELSE NoFieldList

(***************************************************************************)
(* The driver calls.  A call returns [h, ret, err, sent]: ret is what the  *)
(* caller gets, err the error thrown instead, sent the requests that       *)
(* reached the store connection, each [method, filter, orderBy, data,      *)
(* fields] with the documents as they were when dispatched.                *)
(***************************************************************************)
\* v != null
NotNull(v) == v.t \notin {"null", "undefined"}

RECURSIVE Reverse(_)
\* res.reverse()
Reverse(seq) == IF seq = <<>> THEN <<>> ELSE Append(Reverse(Tail(seq)), Head(seq))

\* this.mapResult(r, meta) of DatabaseDriver, for one raw row
mapResult(row) == row

Request(method, filter, orderBy, data, fields) ==
    [method |-> method, filter |-> filter, orderBy |-> orderBy, data |-> data,
     fields |-> fields]

Outcome(h, ret, err, sent) == [h |-> h, ret |-> ret, err |-> err, sent |-> sent]

\* Utils.isPrimaryKey(where), for a filter that is a document or an identifier
IsPrimaryKey(where) == where.t \in {"string", "number", "ObjectId"}

\* buildFilterById, lines 341-349
buildFilterById(h, entityName, id) ==
    LET meta == FindMeta(entityName)
    IN  IF ToLowerCase(PropOf(meta, meta.primaryKeys[1]).type) = "objectid"
        THEN Alloc(h, Cell(FALSE, <<KV("_id", ObjectId(id.s))>>))
        ELSE Alloc(h, Cell(FALSE, <<KV("_id", id)>>))

\* lines 98-100, 151-153, 209-211
FilterById(h, entityName, where) ==
    IF IsPrimaryKey(where) THEN buildFilterById(h, entityName, where)
    ELSE [h |-> h, v |-> where]

\* andWhere, lines 59-69
andWhere(h, cond1, cond2) ==
    IF IsEmpty(h, cond1) THEN [h |-> h, v |-> cond2]
    ELSE IF IsEmpty(h, cond2) THEN [h |-> h, v |-> cond1]
    ELSE LET a == Alloc(h, Cell(TRUE, <<KV("", cond1), KV("", cond2)>>))
         IN  Alloc(a.h, Cell(FALSE, <<KV("$and", a.v)>>))

\* One comparison of the cursor condition: { name: { $gt | $lt: position } }
CursorCondition(operator, position) ==
    Obj(<<KV("name", Obj(<<KV(operator, Leaf(position))>>))>>)

\* this.processCursorOptions(meta, options, orderBy) of DatabaseDriver: the
\* condition 'after the position after, before the position before' under
\* the ordering, and the ordering to scan with, which is the opposite one
\* when paging backward.
processCursorOptions(options) ==
    [where |->
        IF NotNull(options.after) /\ NotNull(options.before)
        THEN Obj(<<KV("$and", Arr(<<CursorCondition("$gt", options.after),
                                    CursorCondition("$lt", options.before)>>))>>)
        ELSE IF NotNull(options.after) THEN CursorCondition("$gt", options.after)
        ELSE IF NotNull(options.before) THEN CursorCondition("$lt", options.before)
        ELSE Obj(<<>>),
     orderBy |->
        IF NotNull(options.last) /\ ~NotNull(options.first)
        THEN [i \in 1..Len(options.orderBy) |->
                 Obj([j \in 1..Len(options.orderBy[i].c) |->
                         KV(options.orderBy[i].c[j].k,
                            Leaf(Num(0 - options.orderBy[i].c[j].v.n)))])]
        ELSE options.orderBy]

\* line 56
IsCursorPagination(options) ==
    \E v \in {options.first, options.last, options.before, options.after} : NotNull(v)

\* line 76: isCursorPagination && !first && !!last
ReversesRows(options) ==
    IsCursorPagination(options) /\ ~Truthy(options.first) /\ Truthy(options.last)

\* this.renameFields(entityName, l.v) on a document just built in the heap
RenameLoaded(l, entityName) == renameFields(l.h, entityName, l.v, FALSE, FALSE)

RECURSIVE RenameOrderBy(_, _, _, _), OrderByRest(_, _, _, _)
\* Utils.asArray(orderBy).map(order => this.renameFields(entityName, order)),
\* lines 73, 83-85 and 104-106, from index i on: the rewritten orderings
RenameOrderBy(h, entityName, orderBy, i) ==
    IF i > Len(orderBy)
    THEN <<>>
    ELSE OrderByRest(RenameLoaded(Load(h, orderBy[i]), entityName), entityName, orderBy, i)

OrderByRest(r, entityName, orderBy, i) ==
    <<Deref(r.h, r.v)>> \o RenameOrderBy(r.h, entityName, orderBy, i + 1)

\* The rows find returns to its caller
RowList(res) == [rows |-> res]

RECURSIVE MapRows(_)
\* res.map(r => this.mapResult(r, meta)), lines 80 and 88
MapRows(res) ==
    IF res = <<>> THEN <<>> ELSE <<mapResult(Head(res))>> \o MapRows(Tail(res))

\* lines 74-80 and 86-88: the request with the filter f.v is dispatched and
\* the rows res are returned.
FindDispatch(f, entityName, orderBy, options, res) ==
    Outcome(f.h, RowList(MapRows(res)), NoError,
            <<Request("find", Deref(f.h, f.v), RenameOrderBy(f.h, entityName, orderBy, 1),
                      NoValue,
                      buildFields(entityName, options.populate, options.hasFields,
                                  options.fields))>>)

\* lines 72-80: w is the rewritten filter, n the rewritten cursor condition
FindCombined(w, n, entityName, options, rows, pco) ==
    IF n.err # NoError
    THEN Outcome(n.h, NoValue, n.err, <<>>)
    ELSE FindDispatch(andWhere(n.h, w.v, n.v), entityName, pco.orderBy, options,
                      IF ReversesRows(options) THEN Reverse(rows) ELSE rows)

\* line 72: the cursor condition l.v is rewritten
FindCursorCondition(w, l, entityName, options, rows, pco) ==
    FindCombined(w, renameFields(l.h, entityName, l.v, TRUE, FALSE),
                 entityName, options, rows, pco)

\* lines 70-71
FindByCursor(w, entityName, options, rows, pco) ==
    FindCursorCondition(w, Load(w.h, pco.where), entityName, options, rows, pco)

\* lines 56-88, w being the outcome of line 55
FindRewritten(w, entityName, options, rows) ==
    IF w.err # NoError
    THEN Outcome(w.h, NoValue, w.err, <<>>)
    ELSE IF IsCursorPagination(options)
    THEN FindByCursor(w, entityName, options, rows, processCursorOptions(options))
    ELSE FindDispatch(w, entityName, options.orderBy, options, rows)

\* find, lines 48-89.  where is the caller's filter in the heap; rows is
\* what the store connection (or the resolver of a virtual entity) returns.
find(h, entityName, where, options, rows) ==
    IF HasMeta(entityName) /\ FindMeta(entityName).virtual
    THEN Outcome(h, RowList(rows), NoError, <<>>)
    ELSE FindRewritten(renameFields(h, entityName, where, TRUE, FALSE),
                       entityName, options, rows)

\* lines 131, 215: the request with the rewritten filter w.v is dispatched,
\* unless the rewriting threw
DispatchFilter(method, w, n) ==
    IF w.err # NoError
    THEN Outcome(w.h, NoValue, w.err, <<>>)
    ELSE Outcome(w.h, Leaf(Num(n)), NoError,
                 <<Request(method, Deref(w.h, w.v), <<>>, NoValue, NoFieldList)>>)

\* count, lines 124-132.  n is the number the store connection returns.
count(h, entityName, where, n) ==
    IF HasMeta(entityName) /\ FindMeta(entityName).virtual
    THEN Outcome(h, Leaf(Num(n)), NoError, <<>>)
    ELSE DispatchFilter("countDocuments", renameFields(h, entityName, where, TRUE, FALSE), n)

\* line 175: the request is dispatched, unless rewriting the data threw
UpdateDispatch(w, d, n) ==
    IF d.err # NoError
    THEN Outcome(d.h, NoValue, d.err, <<>>)
    ELSE Outcome(d.h, Leaf(Num(n)), NoError,
                 <<Request("updateMany", Deref(d.h, w.v), <<>>, Deref(d.h, d.v),
                           NoFieldList)>>)

\* line 156, unless rewriting the filter threw
UpdateRewritten(w, entityName, data, n) ==
    IF w.err # NoError
    THEN Outcome(w.h, NoValue, w.err, <<>>)
    ELSE UpdateDispatch(w, renameFields(w.h, entityName, data, FALSE, FALSE), n)

\* line 155, 213: b.v is the filter after lines 151-153, 209-211
RenameFilter(b, entityName) == renameFields(b.h, entityName, b.v, TRUE, FALSE)

\* nativeUpdate, lines 150-176, without the onConflict options.  n is the
\* number of rows the store connection reports.
nativeUpdate(h, entityName, where, data, n) ==
    UpdateRewritten(RenameFilter(FilterById(h, entityName, where), entityName),
                    entityName, data, n)

\* nativeDelete, lines 208-216
nativeDelete(h, entityName, where, n) ==
    DispatchFilter("deleteMany", RenameFilter(FilterById(h, entityName, where), entityName), n)

(***************************************************************************)
(* The inputs the calls are given.                                         *)
(***************************************************************************)
\* The longest array of conditions under a group operator, and of values
MaxArr == 2

\* The most keys of a document that holds no group operator
MaxKeys == 2

\* The most fields of an explicit field list
MaxFields == 2

\* The most rows the store connection returns
MaxRows == 2

HexId == <<"5", "0", "7", "f", "1", "f", "7", "7", "b", "c", "f", "8",
           "6", "c", "d", "7", "9", "9", "4", "3", "9", "0", "1", "1">>

HexUpper == <<"5", "0", "7", "F", "1", "F", "7", "7", "B", "C", "F", "8",
              "6", "C", "D", "7", "9", "9", "4", "3", "9", "0", "1", "1">>

NearHex == <<"5", "0", "7", "g", "1", "f", "7", "7", "b", "c", "f", "8",
             "6", "c", "d", "7", "9", "9", "4", "3", "9", "0", "1", "1">>

NotHex == <<"n", "o", "t", "-", "h", "e", "x">>

X == Leaf(Str(<<"x">>))

Y == Leaf(Str(<<"y">>))

Doc1(k, v) == Obj(<<KV(k, v)>>)

\* Sequences of at most n elements of S
SeqsUpTo(S, n) == UNION {[1..m -> S] : m \in 0..n}

\* Documents of at most n of the entries, no key twice
DocsOf(entries, n) ==
    {Obj(c) : c \in {q \in SeqsUpTo(entries, n) :
                        \A i, j \in 1..Len(q) : i # j => q[i].k # q[j].k}}

ArraysOf(S, n) == {Arr(q) : q \in SeqsUpTo(S, n) \ {<<>>}}

\* Values of a property that holds identifiers
IdValues ==
    {Leaf(Str(HexId)), Leaf(ObjectId(HexId)),
     Doc1("$in", Arr(<<Leaf(Str(HexUpper)), Leaf(Str(NotHex))>>))}

AuthorEntries ==
    {KV("_id", v) : v \in IdValues}
    \cup {KV("id", Leaf(Str(HexId))), KV("id", Doc1("$ne", Leaf(Str(HexId))))}
    \cup {KV("name", X), KV("name", Doc1("$re", X)), KV("name", Leaf(Null))}
    \cup {KV("fullName", Y), KV("fullName", Doc1("$re", Y))}
    \cup {KV("age", Doc1("$re", X)), KV("zip", Doc1("$re", X))}
    \cup {KV("boss", Arr(<<Leaf(Str(HexId)), Doc1("k", Leaf(Str(HexId)))>>))}
    \cup {KV("address", Leaf(Null)), KV("address", Doc1("city", X))}
    \cup {KV("addr", Doc1("town", X))}
    \cup {KV("$fulltext", X)}

\* The conditions under a group operator
Conditions ==
    {Doc1("age", Doc1("$gt", Leaf(Num(1)))),
     Doc1("$fulltext", X),
     Doc1("$fulltext", Y),
     Doc1("_id", Doc1("$in", Arr(<<Leaf(Str(HexId))>>))),
     Doc1("$or", Arr(<<Doc1("$fulltext", X)>>))}

GroupDocs ==
    {Obj(lead \o <<KV(k, a)>>) :
        lead \in {<<>>, <<KV("$fulltext", X)>>, <<KV("name", X)>>},
        k \in GroupOperator,
        a \in ArraysOf(Conditions, MaxArr)}

ChainEntries == {KV("a", X), KV("b", Y), KV("c", X)}

RawEntries == {KV("name", Doc1("$re", X)), KV("_id", Leaf(Str(HexId)))}

\* The documents renameFields is given, by entity
DocsFor(entityName) ==
    CASE entityName = "Author" -> DocsOf(AuthorEntries, MaxKeys) \cup GroupDocs
      [] entityName = "Chain" -> DocsOf(ChainEntries, MaxKeys)
      [] OTHER -> DocsOf(RawEntries, MaxKeys)

\* The values convertObjectIds is given
IdLeaves ==
    {Leaf(Str(HexId)), Leaf(Str(HexUpper)), Leaf(Str(NearHex)), Leaf(Str(NotHex)),
     Leaf(ObjectId(HexId)), Leaf(Num(1)), Leaf(Null)}

IdItems == {Leaf(Str(HexId)), Leaf(Str(NotHex)), Doc1("k", Leaf(Str(HexId)))}

IdInputs ==
    IdLeaves
    \cup ArraysOf(IdItems, MaxArr)
    \cup {Doc1("k", v) : v \in IdLeaves \cup ArraysOf(IdItems, MaxArr)}
    \cup {Doc1("k", Doc1("j", Leaf(Str(HexUpper))))}

\* The filters the driver calls are given
Filters ==
    {Obj(<<>>),
     Doc1("name", X),
     Doc1("id", Leaf(Str(HexId))),
     Doc1("$fulltext", X),
     Obj(<<KV("$fulltext", X), KV("$and", Arr(<<Doc1("$fulltext", Y)>>))>>),
     Doc1("$and", Arr(<<Doc1("age", Doc1("$gt", Leaf(Num(1)))), Doc1("$fulltext", X)>>)),
     Doc1("$and", Arr(<<Doc1("$fulltext", X), Doc1("$fulltext", Y)>>)),
     Doc1("$or", Arr(<<Doc1("$fulltext", X)>>))}

\* first and last: unset, or a number of rows
Counts == {Null, Num(0), Num(2)}

\* before and after: unset, or a position
Positions == {Null, Str(<<"x">>)}

Orderings == {<<Doc1("name", Leaf(Num(1)))>>}

RECURSIVE RowsTo(_)
\* The rows 1, ..., n
RowsTo(n) == IF n = 0 THEN <<>> ELSE Append(RowsTo(n - 1), n)

\* What the store connection returns
RowSeqs == {RowsTo(n) : n \in 0..MaxRows}

FieldNamesFor(entityName) ==
    IF entityName = "Chain"
    THEN {Name("a"), Name("b"), Name("*")}
    ELSE {Name("_id"), Name("id"), Name("name"), Name("bio"), Name("*"),
          <<"address", "city">>, <<"_id", "x">>}

Populates == {<<>>, <<[field |-> "bio", all |-> FALSE]>>}

NoOptions ==
    [first |-> Null, last |-> Null, before |-> Null, after |-> Null,
     orderBy |-> <<>>, populate |-> <<>>, hasFields |-> FALSE, fields |-> <<>>]

(***************************************************************************)
(* The state: the call that was made and what came of it.  The driver      *)
(* keeps nothing between calls, so a behaviour is one call.                *)
(***************************************************************************)
VARIABLES
    pc,          \* "idle", "done" after the call, "again" after its repetition
    op,          \* the method called
    entityName,  \* its entity
    args,        \* the documents the caller passed, as they were at the call
    argsAfter,   \* the same documents of the caller after the call
    opts,        \* the options of find and buildFields
    rows,        \* the rows the store connection returned
    ret,         \* what the call returned
    err,         \* the error it threw, NoError when it returned
    sent,        \* the requests that reached the store connection
    again        \* the result of applying the method to its own result

vars == <<pc, op, entityName, args, argsAfter, opts, rows, ret, err, sent, again>>

Init ==
    /\ pc = "idle"
    /\ op = ""
    /\ entityName = ""
    /\ args = <<>>
    /\ argsAfter = <<>>
    /\ opts = NoOptions
    /\ rows = <<>>
    /\ ret = NoValue
    /\ err = NoError
    /\ sent = <<>>
    /\ again = NoValue

\* The state after a call
Done(method, entity, before, after, options, delivered, result, error, requests) ==
    /\ pc' = "done"
    /\ op' = method
    /\ entityName' = entity
    /\ args' = before
    /\ argsAfter' = after
    /\ opts' = options
    /\ rows' = delivered
    /\ ret' = result
    /\ err' = error
    /\ sent' = requests
    /\ again' = NoValue

\* The state after a call on the documents at roots, which gave r
Called(method, entity, before, roots, r, options, delivered) ==
    Done(method, entity, before, [i \in 1..Len(roots) |-> Deref(r.h, roots[i])],
         options, delivered, r.ret, r.err, r.sent)

\* What a call of renameFields or convertObjectIds that gave r hands back
Handed(r) ==
    Outcome(r.h, IF r.err = NoError THEN Deref(r.h, r.v) ELSE NoValue, r.err, <<>>)

\* The result of a call that did not throw
Value(r) == [h |-> r.h, v |-> r.v, err |-> NoError]

\* again becomes the result r of the repeated call
Repeated(r) ==
    /\ r.err = NoError
    /\ again' = Deref(r.h, r.v)
    /\ pc' = "again"
    /\ UNCHANGED <<op, entityName, args, argsAfter, opts, rows, ret, err, sent>>

\* renameFields(entityName, data, where), data being l.v
RenameFieldsOn(l, e, data, where) ==
    Called("renameFields", e, <<data>>, <<l.v>>,
           Handed(renameFields(l.h, e, l.v, where, FALSE)), NoOptions, <<>>)

RenameFields ==
    /\ pc = "idle"
    /\ \E e \in {"Author", "Chain", "Raw"}, where \in BOOLEAN :
       \E data \in DocsFor(e) :
          RenameFieldsOn(Load(<<>>, data), e, data, where)

\* renameFields(entityName, renameFields(entityName, data))
RenameFieldsAgain ==
    /\ pc = "done" /\ op = "renameFields" /\ err = NoError
    /\ Repeated(RenameLoaded(Load(<<>>, ret), entityName))

\* convertObjectIds(data), data being l.v
ConvertObjectIdsOn(l, data) ==
    Called("convertObjectIds", "", <<data>>, <<l.v>>,
           Handed(Value(convertObjectIds(l.h, l.v))), NoOptions, <<>>)

ConvertObjectIds ==
    /\ pc = "idle"
    /\ \E data \in IdInputs : ConvertObjectIdsOn(Load(<<>>, data), data)

\* convertObjectIds(l.v)
ConvertLoaded(l) == convertObjectIds(l.h, l.v)

\* convertObjectIds(convertObjectIds(data))
ConvertObjectIdsAgain ==
    /\ pc = "done" /\ op = "convertObjectIds"
    /\ Repeated(Value(ConvertLoaded(Load(<<>>, ret))))

\* buildFields(entityName, populate, fields)
BuildFields ==
    /\ pc = "idle"
    /\ \E e \in {"Author", "Chain", "Raw"}, populate \in Populates, hasFields \in BOOLEAN :
       \E fields \in IF hasFields THEN SeqsUpTo(FieldNamesFor(e), MaxFields) ELSE {<<>>} :
          Done("buildFields", e, <<>>, <<>>,
               [NoOptions EXCEPT !.populate = populate, !.hasFields = hasFields,
                                 !.fields = fields],
               <<>>, buildFields(e, populate, hasFields, fields), NoError, <<>>)

\* find(entityName, where, options), where being l.v
FindOn(l, e, where, options, delivered) ==
    Called("find", e, <<where>>, <<l.v>>, find(l.h, e, l.v, options, delivered),
           options, delivered)

Find ==
    /\ pc = "idle"
    /\ \E e \in {"Author", "Report"}, where \in Filters, first \in Counts, last \in Counts,
          before \in Positions, after \in Positions, orderBy \in Orderings,
          delivered \in RowSeqs :
          FindOn(Load(<<>>, where), e, where,
                 [NoOptions EXCEPT !.first = first, !.last = last, !.before = before,
                                   !.after = after, !.orderBy = orderBy],
                 delivered)

\* count(entityName, where), where being l.v
CountOn(l, e, where, n) ==
    Called("count", e, <<where>>, <<l.v>>, count(l.h, e, l.v, n), NoOptions, <<>>)

Count ==
    /\ pc = "idle"
    /\ \E e \in {"Author", "Report"}, where \in Filters, n \in 0..MaxRows :
          CountOn(Load(<<>>, where), e, where, n)

\* nativeUpdate(entityName, where, data), where being l.v and data m.v
NativeUpdateOn(l, m, e, where, data, n) ==
    Called("nativeUpdate", e, <<where, data>>, <<l.v, m.v>>,
           nativeUpdate(m.h, e, l.v, m.v, n), NoOptions, <<>>)

\* The filter l.v and then the data built in the heap
NativeUpdateWith(l, e, where, data, n) ==
    NativeUpdateOn(l, Load(l.h, data), e, where, data, n)

NativeUpdate ==
    /\ pc = "idle"
    /\ \E where \in Filters \cup {Leaf(Str(HexId))}, data \in DocsOf(AuthorEntries, 1),
          n \in 0..MaxRows :
          NativeUpdateWith(Load(<<>>, where), "Author", where, data, n)

\* nativeDelete(entityName, where), where being l.v
NativeDeleteOn(l, e, where, n) ==
    Called("nativeDelete", e, <<where>>, <<l.v>>, nativeDelete(l.h, e, l.v, n),
           NoOptions, <<>>)

NativeDelete ==
    /\ pc = "idle"
    /\ \E where \in Filters \cup {Leaf(Str(HexId))}, n \in 0..MaxRows :
          NativeDeleteOn(Load(<<>>, where), "Author", where, n)

Next ==
    \/ RenameFields
    \/ RenameFieldsAgain
    \/ ConvertObjectIds
    \/ ConvertObjectIdsAgain
    \/ BuildFields
    \/ Find
    \/ Count
    \/ NativeUpdate
    \/ NativeDelete

Spec == Init /\ [][Next]_vars

(***************************************************************************)
(* What the claims speak of, read off the documents as trees.              *)
(***************************************************************************)
\* The document has the key k at its top level
TreeHas(tree, k) ==
    tree.t = "object" /\ \E i \in 1..Len(tree.c) : tree.c[i].k = k

\* The value under the key k, NoValue when there is none
TreeGet(tree, k) ==
    IF TreeHas(tree, k)
    THEN tree.c[CHOOSE i \in 1..Len(tree.c) : tree.c[i].k = k].v
    ELSE NoValue

RECURSIVE TreeHasNested(_, _)
\* Some object of the tree, at any depth, has the key k
TreeHasNested(tree, k) ==
    \/ TreeHas(tree, k)
    \/ \E i \in 1..Len(tree.c) : TreeHasNested(tree.c[i].v, k)

\* Some object below the top level has the key k
TreeHasBelow(tree, k) == \E i \in 1..Len(tree.c) : TreeHasNested(tree.c[i].v, k)

\* The sub-documents of the $and array of the document
AndConditions(doc) ==
    IF TreeGet(doc, "$and").t = "array"
    THEN [i \in 1..Len(TreeGet(doc, "$and").c) |-> TreeGet(doc, "$and").c[i].v]
    ELSE <<>>

\* The $fulltext keys at the top level and in the sub-documents of $and
FulltextCount(doc) ==
    (IF TreeHas(doc, "$fulltext") THEN 1 ELSE 0)
    + Cardinality({i \in 1..Len(AndConditions(doc)) :
                      TreeHas(AndConditions(doc)[i], "$fulltext")})

\* The physical field name of a property: its first field name, and for the
\* serialized primary key that of the primary key
PhysicalName(meta, prop) ==
    IF prop.serializedPrimaryKey
    THEN PropOf(meta, meta.primaryKeys[1]).fieldNames[1]
    ELSE prop.fieldNames[1]

\* The call that was made is a call of method
Made(method) == pc # "idle" /\ op = method

\* renameFields(entityName, doc) as a function of documents
Rewritten(e, doc) == Handed(RenameLoaded(Load(<<>>, doc), e)).ret

(***************************************************************************)
(* C1.  renameFields never changes the document it is given: after the     *)
(* call, the caller's document and everything reachable from it are what   *)
(* they were before it.                                                    *)
(***************************************************************************)
C1_InputNotMutated == Made("renameFields") => argsAfter = args

(***************************************************************************)
(* C2.  For a property with logical name l and physical name p, of any     *)
(* kind and for any value, renameFields(entity, {l: v}) returns a document *)
(* that has the key p and, when l differs from p, has not the key l.       *)
(***************************************************************************)
C2_KeyIsPhysical ==
    (/\ Made("renameFields")
     /\ HasMeta(entityName)
     /\ Len(args[1].c) = 1
     /\ HasProp(FindMeta(entityName), args[1].c[1].k))
    => LET l == args[1].c[1].k
           p == PhysicalName(FindMeta(entityName), PropOf(FindMeta(entityName), l))
       IN  /\ err = NoError
           /\ TreeHas(ret, p)
           /\ l # p => ~TreeHas(ret, l)

(***************************************************************************)
(* C3.  For every key of the input that is no group operator and whose     *)
(* value is a mapping {$re: pattern}, be the key unknown to the entity, a  *)
(* property stored under its own name or a property stored under another  *)
(* name, the output holds under the resulting key the regular expression   *)
(* built from pattern.                                                     *)
(***************************************************************************)
\* The key under which the entry k of the input is stored
ResultingKey(e, k) ==
    IF HasMeta(e) /\ HasProp(FindMeta(e), k)
    THEN PhysicalName(FindMeta(e), PropOf(FindMeta(e), k))
    ELSE k

IsRegexShorthand(v) == v.t = "object" /\ Len(v.c) = 1 /\ v.c[1].k = "$re"

C3_RegexShorthandApplied ==
    (Made("renameFields") /\ err = NoError)
    => \A i \in 1..Len(args[1].c) :
          (/\ ~IsGroupOperator(args[1].c[i].k)
           /\ IsRegexShorthand(args[1].c[i].v)
           /\ \A j \in 1..Len(args[1].c) :
                 j # i => args[1].c[j].k # ResultingKey(entityName, args[1].c[i].k))
          => TreeGet(ret, ResultingKey(entityName, args[1].c[i].k))
                = Leaf(RegExp(args[1].c[i].v.c[1].v))

(***************************************************************************)
(* C4.  When the input has no $fulltext at its top level and exactly one   *)
(* sub-document of its $and array holds $fulltext with the term t, the     *)
(* output has $text = {$search: t}, has no $fulltext at any depth, and its *)
(* $and is exactly the rewritten other conditions, with no element left    *)
(* for the sub-document that held the term.                                *)
(***************************************************************************)
\* The sub-documents of $and that hold no $fulltext, rewritten
OtherConditions(e, doc) ==
    LET others == SelectSeq(AndConditions(doc), LAMBDA c : ~TreeHas(c, "$fulltext"))
    IN  [i \in 1..Len(others) |-> Rewritten(e, others[i])]

\* The term of the one sub-document of $and that holds $fulltext
HoistedTerm(doc) ==
    TreeGet(AndConditions(doc)[CHOOSE i \in 1..Len(AndConditions(doc)) :
                                   TreeHas(AndConditions(doc)[i], "$fulltext")],
            "$fulltext")

IsFulltextMerge(doc) == ~TreeHas(doc, "$fulltext") /\ FulltextCount(doc) = 1

C4_FulltextMerged ==
    (Made("renameFields") /\ IsFulltextMerge(args[1]) /\ err = NoError)
    => /\ TreeGet(ret, "$text") = Doc1("$search", HoistedTerm(args[1]))
       /\ ~TreeHasNested(ret, "$fulltext")
       /\ AndConditions(ret) = OtherConditions(entityName, args[1])

(***************************************************************************)
(* C5.  When more than one $fulltext key is found across the top level of  *)
(* the filter and the sub-documents of its $and array, renameFields throws *)
(* the conflict error and returns no document, and find, count,            *)
(* nativeUpdate and nativeDelete send no request to the store connection.  *)
(***************************************************************************)
IsVirtual(e) == HasMeta(e) /\ FindMeta(e).virtual

C5_FulltextConflict ==
    (/\ pc # "idle"
     /\ op \in {"renameFields", "find", "count", "nativeUpdate", "nativeDelete"}
     /\ FulltextCount(args[1]) > 1)
    => /\ sent = <<>>
       /\ ~IsVirtual(entityName) => err = ConflictError
       /\ op = "renameFields" => ret = NoValue

\* find was given a filter with two $fulltext keys and threw the conflict
C5_Witness ==
    /\ Made("find")
    /\ FulltextCount(args[1]) > 1
    /\ err = ConflictError
    /\ sent = <<>>

(***************************************************************************)
(* C6.  A document whose keys are all physical field names of the entity   *)
(* or unknown to it, and that holds no identifier left to convert, is      *)
(* returned as it is; and rewriting the result of rewriting a document     *)
(* without full-text or regex-shorthand keys changes nothing.  This holds  *)
(* for the entities in which no property is stored under the logical name  *)
(* of another property that is itself stored under another name.           *)
(***************************************************************************)
\* The physical field names of the entity
PhysicalNames(e) ==
    IF HasMeta(e)
    THEN {PhysicalName(FindMeta(e), FindMeta(e).props[i]) :
             i \in 1..Len(FindMeta(e).props)}
    ELSE {}

\* Some property is stored under the logical name of another property that
\* is stored under another name
NamesOverlap(e) ==
    /\ HasMeta(e)
    /\ \E i, j \in 1..Len(FindMeta(e).props) :
          /\ PhysicalName(FindMeta(e), FindMeta(e).props[i]) = FindMeta(e).props[j].name
          /\ PhysicalName(FindMeta(e), FindMeta(e).props[j]) # FindMeta(e).props[j].name

RECURSIVE HoldsHexString(_)
\* Some string of the tree is the hexadecimal form of an identifier
HoldsHexString(tree) ==
    \/ tree.t = "string" /\ MatchesObjectIdHex(tree.s)
    \/ \E i \in 1..Len(tree.c) : HoldsHexString(tree.c[i].v)

RECURSIVE AlreadyPhysical(_, _)
\* Every key is a physical field name of the entity or unknown to it, under
\* the group operators too
AlreadyPhysical(e, doc) ==
    \A i \in 1..Len(doc.c) :
       IF IsGroupOperator(doc.c[i].k)
       THEN \A j \in 1..Len(doc.c[i].v.c) : AlreadyPhysical(e, doc.c[i].v.c[j].v)
       ELSE \/ ~HasMeta(e)
            \/ ~HasProp(FindMeta(e), doc.c[i].k)
            \/ doc.c[i].k \in PhysicalNames(e)

NoFulltextOrRegex(doc) == ~TreeHasNested(doc, "$fulltext") /\ ~TreeHasNested(doc, "$re")

\* What idempotence asks of a call of renameFields
RewritingChangesNothing ==
    /\ pc = "again" => again = ret
    /\ (AlreadyPhysical(entityName, args[1]) /\ ~HoldsHexString(args[1])) => ret = args[1]

Occurrences(list, name) == Cardinality({i \in 1..Len(list) : list[i] = name})

C7_PrimaryKeysOnce ==
    (Made("buildFields") /\ HasMeta(entityName) /\ opts.hasFields)
    => /\ ret.defined
       /\ \A i \in 1..Len(FindMeta(entityName).primaryKeys) :
             Occurrences(ret.list,
                         Name(PhysicalName(FindMeta(entityName),
                                           GetPrimaryProps(FindMeta(entityName))[i]))) = 1

(***************************************************************************)
(* C8.  find returns the rows of the store connection reversed exactly     *)
(* when last is set and first is not set, and in the order they were       *)
(* delivered in every other case.                                          *)
(***************************************************************************)
PagingBackward(options) == NotNull(options.last) /\ ~NotNull(options.first)

C8_ReversedWhenPagingBackward ==
    (Made("find") /\ ~IsVirtual(entityName) /\ err = NoError)
    => ret = RowList(IF PagingBackward(opts) THEN Reverse(rows) ELSE rows)

(***************************************************************************)
(* C9.  convertObjectIds returns what the reference function returns: a    *)
(* string of 24 hexadecimal digits becomes the identifier built from it,   *)
(* an array and a mapping are normalized value by value at every depth,    *)
(* everything else is returned as it is; and normalizing the result again  *)
(* changes nothing.                                                        *)
(***************************************************************************)
HexChars ==
    {"0", "1", "2", "3", "4", "5", "6", "7", "8", "9",
     "a", "b", "c", "d", "e", "f", "A", "B", "C", "D", "E", "F"}

RECURSIVE Normalized(_)
\* The reference function, on trees
Normalized(tree) ==
    IF tree.t = "string"
    THEN IF Len(tree.s) = 24 /\ \A i \in 1..24 : tree.s[i] \in HexChars
         THEN Leaf(ObjectId(tree.s))
         ELSE tree
    ELSE [tree EXCEPT !.c = [i \in 1..Len(tree.c) |->
                                KV(tree.c[i].k, Normalized(tree.c[i].v))]]

C9_EqualsReference ==
    Made("convertObjectIds")
    => /\ err = NoError
       /\ ret = Normalized(args[1])
       /\ pc = "again" => again = ret

\* An array of an identifier string in capitals and a mapping that holds one
\* was normalized, and then normalized again
C9_Witness ==
    /\ pc = "again" /\ op = "convertObjectIds"
    /\ args[1].t = "object" /\ args[1].c[1].v.t = "object"
    /\ args[1].c[1].v.c[1].v = Leaf(Str(HexUpper))
    /\ ret.c[1].v.c[1].v = Leaf(ObjectId(HexId))
    /\ again = ret

(***************************************************************************)
(* C10.  The filter of every request find sends to the store connection    *)
(* holds no $fulltext at any depth and holds $text at its top level only,  *)
(* with or without cursor pagination.                                      *)
(***************************************************************************)
C10_TextAtTopLevelOnly ==
    Made("find")
    => \A i \in 1..Len(sent) :
          /\ ~TreeHasNested(sent[i].filter, "$fulltext")
          /\ ~TreeHasBelow(sent[i].filter, "$text")

====
